---- MODULE Spec2Model ----
(***************************************************************************)
(* A model of Crawler.py: the single-domain breadth-first crawl loop, its  *)
(* URL clean-up, its result store, the periodic and final snapshots and    *)
(* the SIGINT handler.                                                     *)
(*                                                                         *)
(* A URL string is a sequence of tokens.  The first token of an absolute   *)
(* URL stands for "scheme://netloc"; the other tokens are the characters   *)
(* the code looks at ("/", "?", "#"), path letters and file extensions.    *)
(***************************************************************************)
EXTENDS Integers, Sequences, FiniteSets, TLC

(***************************************************************************)
(* Bounds of the model.                                                    *)
(***************************************************************************)
\* the largest number of <a href> elements of one fetched page
MaxLinks == 2

(***************************************************************************)
(* Configuration (Crawler.py lines 13-26).                                 *)
(***************************************************************************)
\* "scheme://netloc" tokens and what urlparse reads from them
Origins ==
    [ t \in {"https://www.workstream.us", "https://blog.workstream.us",
             "ftp://www.workstream.us"} |->
        IF t = "https://www.workstream.us"
        THEN [scheme |-> "https", netloc |-> "www.workstream.us"]
        ELSE IF t = "https://blog.workstream.us"
             THEN [scheme |-> "https", netloc |-> "blog.workstream.us"]
             ELSE [scheme |-> "ftp", netloc |-> "www.workstream.us"] ]

\* a token on which urlparse raises ValueError ("Invalid IPv6 URL")
MalformedToken == "http://["

START_URL == <<"https://www.workstream.us", "/">>

\* Saving every 200 pages is scaled down to every 2 pages.
SAVE_EVERY_N_PAGES == 2

(***************************************************************************)
(* String helpers: str.endswith, str.rstrip, str.split(c)[0], str.lower.   *)
(***************************************************************************)
endswith(s, c) == s # <<>> /\ s[Len(s)] = c

RECURSIVE rstrip(_, _)
rstrip(s, c) ==
    IF endswith(s, c) THEN rstrip(SubSeq(s, 1, Len(s) - 1), c) ELSE s

\* index of the first c in s, Len(s) + 1 when there is none
FirstIndex(s, c) ==
    IF \E i \in 1..Len(s) : s[i] = c
    THEN CHOOSE i \in 1..Len(s) : s[i] = c /\ \A j \in 1..(i - 1) : s[j] # c
    ELSE Len(s) + 1

SplitHead(s, c) == SubSeq(s, 1, FirstIndex(s, c) - 1)

SplitRest(s, c) == SubSeq(s, FirstIndex(s, c) + 1, Len(s))

lower(s) == [i \in 1..Len(s) |-> IF s[i] = ".PDF" THEN ".pdf" ELSE s[i]]

(***************************************************************************)
(* urllib.parse: urlparse, geturl (urlunparse), urljoin.                   *)
(***************************************************************************)
\* urlparse raises ValueError on the string
RaisesValueError(s) == \E i \in 1..Len(s) : s[i] = MalformedToken

urlparse(s) ==
    LET abs  == s # <<>> /\ s[1] \in DOMAIN Origins
        rest == IF abs THEN Tail(s) ELSE s
        body == SplitHead(rest, "#")
    IN  [ origin   |-> IF abs THEN <<s[1]>> ELSE <<>>,
          scheme   |-> IF abs THEN Origins[s[1]].scheme ELSE "",
          netloc   |-> IF abs THEN Origins[s[1]].netloc ELSE "",
          path     |-> SplitHead(body, "?"),
          query    |-> SplitRest(body, "?"),
          fragment |-> SplitRest(rest, "#") ]

\* an empty query or fragment loses its delimiter
geturl(p) ==
    p.origin \o p.path
      \o (IF p.query # <<>> THEN <<"?">> \o p.query ELSE <<>>)
      \o (IF p.fragment # <<>> THEN <<"#">> \o p.fragment ELSE <<>>)

\* urljoin for the references of Hrefs: an absolute URL, a reference that
\* is only a query or a fragment, or an absolute path without empty or dot
\* segments
urljoin(base, url) ==
    LET b == urlparse(base)
        u == urlparse(url)
    IN  IF u.origin # <<>>
        THEN geturl(u)
        ELSE IF u.path = <<>>
             THEN geturl([b EXCEPT !.query = IF u.query # <<>> THEN u.query
                                              ELSE b.query,
                                   !.fragment = u.fragment])
             ELSE geturl([u EXCEPT !.origin = b.origin, !.scheme = b.scheme,
                                   !.netloc = b.netloc])

ALLOWED_DOMAIN == urlparse(START_URL).netloc

(***************************************************************************)
(* URL clean-up and the scope filter.                                      *)
(***************************************************************************)
\* lines 137-140: the clean-up of a dequeued URL
clean_current_url(url) ==
    LET parsed_url_temp == urlparse(url)
    IN  IF parsed_url_temp.path # <<>> /\ parsed_url_temp.path # <<"/">>
           /\ endswith(url, "/")
        THEN rstrip(url, "/")
        ELSE url

\* lines 258-262: a link resolved against the page, without its fragment
\* and without trailing slashes
absolute_url(current, href) ==
    LET joined         == urljoin(current, href)
        parsed_new_url == urlparse(joined)
        no_fragment    == geturl([parsed_new_url EXCEPT !.fragment = <<>>])
    IN  IF parsed_new_url.path # <<>> /\ parsed_new_url.path # <<"/">>
           /\ endswith(no_fragment, "/")
        THEN rstrip(no_fragment, "/")
        ELSE no_fragment

excluded_extensions ==
    { ".pdf", ".jpg", ".jpeg", ".png", ".gif", ".zip", ".docx", ".xlsx",
      ".pptx", ".mp4", ".mov", ".avi", ".svg", ".css", ".js", ".xml",
      ".txt", ".ico", ".webp", ".woff", ".woff2", ".ttf", ".eot", ".map" }

\* a mutant of is_valid_url: the host is not compared
is_valid_url_any_host(url) ==
    IF RaisesValueError(url)
    THEN FALSE
    ELSE LET parsed == urlparse(url)
             stem   == SplitHead(SplitHead(lower(url), "?"), "#")
         IN  /\ parsed.scheme \in {"http", "https"}
             /\ \A i \in 1..Len(url) : url[i] # "#"
             /\ ~ \E e \in excluded_extensions : endswith(stem, e)

\* lines 73-93
is_valid_url(url) ==
    IF RaisesValueError(url)
    THEN FALSE
    ELSE LET parsed == urlparse(url)
             stem   == SplitHead(SplitHead(lower(url), "?"), "#")
         IN  /\ parsed.scheme \in {"http", "https"}
             /\ parsed.netloc = ALLOWED_DOMAIN
             /\ \A i \in 1..Len(url) : url[i] # "#"
             /\ ~ \E e \in excluded_extensions : endswith(stem, e)

(***************************************************************************)
(* The frontier.                                                           *)
(***************************************************************************)
InQueue(q, url) == \E i \in 1..Len(q) : q[i] = url

\* a mutant of popleft: the deque popped at its right end
pop_right(q) == [url |-> q[Len(q)], rest |-> SubSeq(q, 1, Len(q) - 1)]

\* line 135: queue.popleft()
popleft(q) == [url |-> Head(q), rest |-> Tail(q)]

\* a mutant of visited_add: the URL is not recorded as visited
visited_add_forgotten(visited, url) == visited

\* line 154: visited_urls.add(current_url)
visited_add(visited, url) == visited \cup {url}

\* a mutant of should_queue: the queue is not consulted
should_queue_unless_visited(url, visited, q) ==
    is_valid_url(url) /\ url \notin visited

\* line 265: the condition under which a link is appended to the queue
should_queue(url, visited, q) ==
    is_valid_url(url) /\ url \notin visited /\ ~ InQueue(q, url)

\* lines 254-267: one <a href> of the page: an empty href is skipped,
\* urljoin raises ValueError on a malformed one, a new in-scope URL is
\* appended to the queue
queue_link(q, href, current, visited) ==
    IF href = <<>>
    THEN [queue |-> q, raised |-> FALSE]
    ELSE IF RaisesValueError(href)
         THEN [queue |-> q, raised |-> TRUE]
         ELSE LET url == absolute_url(current, href)
              IN  [queue  |-> IF should_queue(url, visited, q)
                              THEN Append(q, url) ELSE q,
                   raised |-> FALSE]

(***************************************************************************)
(* The result store and the snapshot file.                                 *)
(***************************************************************************)
\* crawl_data[url] = {...}: an assignment replaces an entry of the same key
store(data, url, status, info) ==
    (url :> [status |-> status, info |-> info]) @@ data

\* lines 243-248: the entry of a page whose text was extracted
store_success(data, url, method, text) ==
    (url :> [status |-> "success", info |-> method, text |-> text]) @@ data

NoEntries == [u \in {} |-> [status |-> "", info |-> ""]]

\* lines 96-110: what save_data can leave on disk.  The write succeeds, or
\* it fails after open(filename, 'w') truncated the file.  save_data
\* catches the error and returns normally.
save_data(data, file) ==
    { [state |-> "written", data |-> data],
      [state |-> "partial", data |-> NoEntries] }

(***************************************************************************)
(* Text extraction (lines 180-239): which strategy is recorded.            *)
(***************************************************************************)
\* a mutant of extraction_method: the wrapper div is looked for first
extraction_method_wrapper_first(regions) ==
    IF "div.body-container-wrapper" \in regions
    THEN "div.body-container-wrapper"
    ELSE IF "main#main-content" \in regions THEN "main#main-content"
    ELSE IF "main" \in regions THEN "<main> tag"
    ELSE IF "body" \in regions THEN "Fallback (Body Cleanup)"
    ELSE "Fallback (Full Document - No Body)"

extraction_method(regions) ==
    IF "main#main-content" \in regions THEN "main#main-content"
    ELSE IF "main" \in regions THEN "<main> tag"
    ELSE IF "div.body-container-wrapper" \in regions
         THEN "div.body-container-wrapper"
    ELSE IF "body" \in regions THEN "Fallback (Body Cleanup)"
    ELSE "Fallback (Full Document - No Body)"

\* lines 183-231: the element main_content_area is set to
main_content_area(regions) ==
    IF "main#main-content" \in regions THEN "main#main-content"
    ELSE IF "main" \in regions THEN "main"
    ELSE IF "div.body-container-wrapper" \in regions
         THEN "div.body-container-wrapper"
    ELSE IF "body" \in regions THEN "body"
    ELSE "document"

\* get_text(separator=' ', strip=True) of each element of a document; the
\* boilerplate is removed from the last three before (lines 217, 227, 235)
get_text ==
    [ e \in {"main#main-content", "main", "div.body-container-wrapper",
             "body", "document"} |->
        IF e = "main#main-content" THEN "Hello World"
        ELSE IF e = "main" THEN "Hello"
        ELSE IF e = "div.body-container-wrapper" THEN "Menu Hello World"
        ELSE IF e = "body" THEN "Menu Hello World Contact"
        ELSE "Title Menu Hello World Contact" ]

\* a mutant of page_text: the text of the whole body is taken
page_text_body(regions) == get_text["body"]

\* lines 232, 237-238: the text stored for the page
page_text(regions) == get_text[main_content_area(regions)]

(***************************************************************************)
(* The site: what a fetch can return.                                      *)
(***************************************************************************)
\* the href attributes a page of the site can carry
Hrefs ==
    { <<"/">>,
      <<"/", "a">>,
      <<"/", "a", "/">>,
      <<"/", "a", "#", "f">>,
      <<"/", "b">>,
      <<"/", "b", ".pdf">>,
      <<"/", "b", ".PDF", "?", "q">>,
      <<"ftp://www.workstream.us", "/", "a">>,
      <<"https://www.workstream.us">>,
      <<"https://blog.workstream.us", "/", "a">>,
      <<MalformedToken>> }

\* the content regions of the documents of the site
Documents == { {"main#main-content", "body"} }

\* the content regions a document can have, in any combination
Regions == {"main#main-content", "main", "div.body-container-wrapper", "body"}

\* soup before the first page is parsed
NoSoup == {"unbound"}

(***************************************************************************)
(* State.                                                                  *)
(***************************************************************************)
VARIABLES
    queue,            \* the deque of crawl()
    visited_urls,     \* global set
    pages_crawled,    \* global counter
    crawl_data,       \* global dict: URL -> entry
    last_save_count,  \* global
    current_url,      \* local of crawl()
    links_found_this_page,  \* local of crawl(): the links of the page so far
    pc,               \* where the process is
    disk,             \* OUTPUT_FILE
    exit_reason,      \* why the process is leaving crawl(): "" while running
    exit_code,        \* the exit status, -1 while the process runs
    discovered,       \* history: the URLs appended to the queue, in order,
                      \*   each with its distance in links from the seed
    relinked,         \* history: a link to a URL already queued or visited
                      \*   was found
    dequeued,         \* history: the URLs popped from the queue, in order
    fetched,          \* history: the requests.get calls and their outcomes
    soup,             \* local of crawl(): the content regions of the
                      \*   document parsed last
    sigint_keys       \* history: the keys of crawl_data at the last SIGINT

vars ==
    << queue, visited_urls, pages_crawled, crawl_data, last_save_count,
       current_url, links_found_this_page, pc, disk, exit_reason, exit_code,
       discovered, relinked, dequeued, fetched, sigint_keys, soup >>

NoSigint == {<<"no SIGINT">>}

\* the distance from the seed at which a dequeued URL was discovered
depth_of(url) ==
    LET i == CHOOSE i \in 1..Len(discovered) : discovered[i].url = url
    IN  discovered[i].depth

Init ==
    /\ queue = <<START_URL>>
    /\ visited_urls = {}
    /\ pages_crawled = 0
    /\ crawl_data = NoEntries
    /\ last_save_count = 0
    /\ current_url = <<>>
    /\ links_found_this_page = 0
    /\ pc = "loop"
    /\ disk = [state |-> "absent", data |-> NoEntries]
    /\ exit_reason = ""
    /\ exit_code = -1
    /\ discovered = <<[url |-> START_URL, depth |-> 0]>>
    /\ relinked = FALSE
    /\ dequeued = <<>>
    /\ fetched = <<>>
    /\ sigint_keys = NoSigint
    /\ soup = NoSoup

(***************************************************************************)
(* crawl(): one iteration of the while loop, in the steps between which a  *)
(* signal can be delivered.                                                *)
(***************************************************************************)
\* lines 132-154: pop, clean, skip a visited URL, else mark it visited
Dequeue ==
    /\ pc = "loop"
    /\ queue # <<>>
    /\ LET head == popleft(queue)
           url  == clean_current_url(head.url)
       IN  /\ queue' = head.rest
           /\ current_url' = url
           /\ dequeued' = Append(dequeued, url)
           /\ IF url \in visited_urls
              THEN /\ visited_urls' = visited_urls
                   /\ pc' = "loop"
              ELSE /\ visited_urls' = visited_add(visited_urls, url)
                   /\ pc' = "fetch"
    /\ UNCHANGED << pages_crawled, crawl_data, last_save_count,
                    links_found_this_page, disk, exit_reason, exit_code,
                    discovered, relinked, fetched, sigint_keys, soup >>

\* a mutant of QueueEmpty: the loop waits for more URLs on an empty queue
QueueEmpty_Blocks ==
    /\ pc = "loop"
    /\ queue = <<>>
    /\ UNCHANGED vars

\* lines 132, 297-300: the queue is empty, crawl() returns to the main block
QueueEmpty ==
    /\ pc = "loop"
    /\ queue = <<>>
    /\ pc' = "finally"
    /\ exit_reason' = "completed"
    /\ UNCHANGED << queue, visited_urls, pages_crawled, crawl_data,
                    last_save_count, current_url, links_found_this_page, disk,
                    exit_code, discovered, relinked, dequeued, fetched,
                    sigint_keys, soup >>

\* lines 135-153 are outside the try of the loop: an exception raised
\* there (the print of line 153 on a closed stdout) leaves crawl() and is
\* caught by the main block (lines 320-324)
UnexpectedError ==
    /\ pc = "loop"
    /\ queue # <<>>
    /\ LET head == popleft(queue)
       IN  /\ queue' = head.rest
           /\ current_url' = clean_current_url(head.url)
           /\ dequeued' = Append(dequeued, clean_current_url(head.url))
    /\ pc' = "finally"
    /\ exit_reason' = "fatal"
    /\ UNCHANGED << visited_urls, pages_crawled, crawl_data, last_save_count,
                    links_found_this_page, disk, exit_code, discovered,
                    relinked, fetched, sigint_keys, soup >>

\* a mutant of FetchTimeout: the handler counts the page and stores nothing
FetchTimeout_NoEntry ==
    /\ pc = "fetch"
    /\ fetched' = Append(fetched, [url |-> current_url, outcome |-> "timeout"])
    /\ pages_crawled' = pages_crawled + 1
    /\ pc' = "loop"
    /\ UNCHANGED << queue, visited_urls, crawl_data, last_save_count,
                    current_url, links_found_this_page, disk, exit_reason,
                    exit_code, discovered, relinked, dequeued, sigint_keys,
                    soup >>

\* a mutant of FetchTimeout: the handler stores the entry and raises again
FetchTimeout_Reraised ==
    /\ pc = "fetch"
    /\ fetched' = Append(fetched, [url |-> current_url, outcome |-> "timeout"])
    /\ crawl_data' = store(crawl_data, current_url, "error",
                           "Request timed out")
    /\ pages_crawled' = pages_crawled + 1
    /\ pc' = "finally"
    /\ exit_reason' = "fatal"
    /\ UNCHANGED << queue, visited_urls, last_save_count, current_url,
                    links_found_this_page, disk, exit_code, discovered,
                    relinked, dequeued, sigint_keys, soup >>

\* lines 161, 278-281: requests.get times out
FetchTimeout ==
    /\ pc = "fetch"
    /\ fetched' = Append(fetched, [url |-> current_url, outcome |-> "timeout"])
    /\ crawl_data' = store(crawl_data, current_url, "error",
                           "Request timed out")
    /\ pages_crawled' = pages_crawled + 1
    /\ pc' = "loop"
    /\ UNCHANGED << queue, visited_urls, last_save_count, current_url,
                    links_found_this_page, disk, exit_reason, exit_code,
                    discovered, relinked, dequeued, sigint_keys, soup >>

\* lines 161-162, 282-285: a transport failure, or raise_for_status on a
\* status that is not 2xx
FetchRequestException ==
    /\ pc = "fetch"
    /\ fetched' = Append(fetched, [url |-> current_url,
                                   outcome |-> "request_exception"])
    /\ crawl_data' = store(crawl_data, current_url, "error",
                           "RequestException")
    /\ pages_crawled' = pages_crawled + 1
    /\ pc' = "loop"
    /\ UNCHANGED << queue, visited_urls, last_save_count, current_url,
                    links_found_this_page, disk, exit_reason, exit_code,
                    discovered, relinked, dequeued, sigint_keys, soup >>

\* a mutant of FetchNonHtml: the entry is stored and the page is parsed
FetchNonHtml_Parsed ==
    /\ pc = "fetch"
    /\ fetched' = Append(fetched, [url |-> current_url,
                                   outcome |-> "non_html"])
    /\ crawl_data' = store(crawl_data, current_url, "skipped_non_html",
                           "application/json")
    /\ pages_crawled' = pages_crawled + 1
    /\ pc' = "parse"
    /\ UNCHANGED << queue, visited_urls, last_save_count, current_url,
                    links_found_this_page, disk, exit_reason, exit_code,
                    discovered, relinked, dequeued, sigint_keys, soup >>

\* a mutant of FetchNonHtml: the page is not counted
FetchNonHtml_Uncounted ==
    /\ pc = "fetch"
    /\ fetched' = Append(fetched, [url |-> current_url,
                                   outcome |-> "non_html"])
    /\ crawl_data' = store(crawl_data, current_url, "skipped_non_html",
                           "application/json")
    /\ pc' = "loop"
    /\ UNCHANGED << queue, visited_urls, pages_crawled, last_save_count,
                    current_url, links_found_this_page, disk, exit_reason,
                    exit_code, discovered, relinked, dequeued, sigint_keys,
                    soup >>

\* lines 165-172: the content type has no text/html
FetchNonHtml ==
    /\ pc = "fetch"
    /\ fetched' = Append(fetched, [url |-> current_url,
                                   outcome |-> "non_html"])
    /\ crawl_data' = store(crawl_data, current_url, "skipped_non_html",
                           "application/json")
    /\ pages_crawled' = pages_crawled + 1
    /\ pc' = "loop"
    /\ UNCHANGED << queue, visited_urls, last_save_count, current_url,
                    links_found_this_page, disk, exit_reason, exit_code,
                    discovered, relinked, dequeued, sigint_keys, soup >>

\* lines 161-167: a 2xx response of content type text/html
FetchHtml ==
    /\ pc = "fetch"
    /\ fetched' = Append(fetched, [url |-> current_url, outcome |-> "html"])
    /\ pc' = "parse"
    /\ UNCHANGED << queue, visited_urls, pages_crawled, crawl_data,
                    last_save_count, current_url, links_found_this_page, disk,
                    exit_reason, exit_code, discovered, relinked, dequeued,
                    sigint_keys, soup >>

\* lines 175-177: BeautifulSoup(response.content, 'lxml') returns, or
\* raises into the bare except
ParseLxml ==
    /\ pc = "parse"
    /\ \/ /\ pc' = "extract"
          /\ soup' \in Documents
       \/ /\ pc' = "parse_fallback"
          /\ UNCHANGED soup
    /\ UNCHANGED << queue, visited_urls, pages_crawled, crawl_data,
                    last_save_count, current_url, links_found_this_page, disk,
                    exit_reason, exit_code, discovered, relinked, dequeued,
                    fetched, sigint_keys >>

\* line 178: BeautifulSoup(response.content, 'html.parser') returns
ParseFallback ==
    /\ pc = "parse_fallback"
    /\ pc' = "extract"
    /\ soup' \in Documents
    /\ UNCHANGED << queue, visited_urls, pages_crawled, crawl_data,
                    last_save_count, current_url, links_found_this_page, disk,
                    exit_reason, exit_code, discovered, relinked, dequeued,
                    fetched, sigint_keys >>

\* lines 178, 286-290: the fallback parser raises too
ParseFallbackRaises ==
    /\ pc = "parse_fallback"
    /\ crawl_data' = store(crawl_data, current_url, "processing_error",
                           "ParserRejectedMarkup")
    /\ pages_crawled' = pages_crawled + 1
    /\ pc' = "loop"
    /\ UNCHANGED << queue, visited_urls, last_save_count, current_url,
                    links_found_this_page, disk, exit_reason, exit_code,
                    discovered, relinked, dequeued, fetched, sigint_keys, soup
                    >>

\* lines 180-248: extract the text and store the success entry
StoreData ==
    /\ pc = "extract"
    /\ crawl_data' = store_success(crawl_data, current_url,
                                   extraction_method(soup), page_text(soup))
    /\ links_found_this_page' = 0
    /\ pc' = "harvest"
    /\ UNCHANGED << queue, visited_urls, pages_crawled, last_save_count,
                    current_url, disk, exit_reason, exit_code, discovered,
                    relinked, dequeued, fetched, sigint_keys, soup >>

\* lines 253-267, 286-290: the next <a href> of the page; a ValueError of
\* urljoin is caught by except Exception, which stores a processing_error
\* entry for the page
harvest_link(hrefs) ==
    /\ pc = "harvest"
    /\ links_found_this_page < MaxLinks
    /\ \E href \in hrefs :
       LET r == queue_link(queue, href, current_url, visited_urls)
       IN  /\ queue' = r.queue
           /\ discovered' =
                 IF Len(r.queue) > Len(queue)
                 THEN Append(discovered, [url   |-> r.queue[Len(r.queue)],
                                          depth |-> depth_of(current_url) + 1])
                 ELSE discovered
           /\ relinked' =
                 (relinked \/ (/\ ~ r.raised
                               /\ r.queue = queue
                               /\ href # <<>>
                               /\ is_valid_url(absolute_url(current_url,
                                                             href))))
           /\ IF r.raised
              THEN /\ crawl_data' = store(crawl_data, current_url,
                                          "processing_error", "ValueError")
                   /\ pages_crawled' = pages_crawled + 1
                   /\ links_found_this_page' = 0
                   /\ pc' = "loop"
              ELSE /\ links_found_this_page' = links_found_this_page + 1
                   /\ pc' = "harvest"
                   /\ UNCHANGED << crawl_data, pages_crawled >>
    /\ UNCHANGED << visited_urls, last_save_count, current_url, disk,
                    exit_reason, exit_code, dequeued, fetched, sigint_keys,
                    soup >>

\* the link loop on the pages of the site
HarvestLink == harvest_link(Hrefs)

\* line 253: the page has no further <a href>
HarvestDone ==
    /\ pc = "harvest"
    /\ pc' = "count"
    /\ UNCHANGED << queue, visited_urls, pages_crawled, crawl_data,
                    last_save_count, current_url, links_found_this_page, disk,
                    exit_reason, exit_code, discovered, relinked, dequeued,
                    fetched, sigint_keys, soup >>

\* a mutant of CountAndSave: the error of a failed write leaves save_data
\* and is caught by except Exception of the loop
CountAndSave_SaveRaises ==
    /\ pc = "count"
    /\ IF (pages_crawled + 1) % SAVE_EVERY_N_PAGES = 0
          /\ pages_crawled + 1 > last_save_count
       THEN \/ /\ disk' = [state |-> "written", data |-> crawl_data]
               /\ pages_crawled' = pages_crawled + 1
               /\ last_save_count' = pages_crawled'
               /\ UNCHANGED crawl_data
            \/ /\ disk' = [state |-> "partial", data |-> NoEntries]
               /\ crawl_data' = store(crawl_data, current_url,
                                      "processing_error", "OSError")
               /\ pages_crawled' = pages_crawled + 2
               /\ last_save_count' = pages_crawled + 1
       ELSE /\ pages_crawled' = pages_crawled + 1
            /\ UNCHANGED << disk, last_save_count, crawl_data >>
    /\ links_found_this_page' = 0
    /\ pc' = "loop"
    /\ UNCHANGED << queue, visited_urls, current_url, exit_reason, exit_code,
                    discovered, relinked, dequeued, fetched, sigint_keys, soup
                    >>

\* lines 269-275: count the page and save every SAVE_EVERY_N_PAGES pages
CountAndSave ==
    /\ pc = "count"
    /\ pages_crawled' = pages_crawled + 1
    /\ IF pages_crawled' % SAVE_EVERY_N_PAGES = 0
          /\ pages_crawled' > last_save_count
       THEN /\ disk' \in save_data(crawl_data, disk)
            /\ last_save_count' = pages_crawled'
       ELSE UNCHANGED << disk, last_save_count >>
    /\ links_found_this_page' = 0   \* dead until line 251 sets it again
    /\ pc' = "loop"
    /\ UNCHANGED << queue, visited_urls, crawl_data, current_url, exit_reason,
                    exit_code, discovered, relinked, dequeued, fetched,
                    sigint_keys, soup >>

(***************************************************************************)
(* SIGINT and the end of the process.                                      *)
(***************************************************************************)
\* where the SystemExit of sys.exit(0), raised by the handler at the
\* interrupted statement, takes the process: the bare except of line 177
\* catches it while line 176 runs; everywhere else in crawl() it reaches
\* the finally of the main block; inside that finally it ends the process
system_exit_lands(at) ==
    IF at = "parse" THEN "parse_fallback"
    ELSE IF at = "finally" THEN "exited"
    ELSE "finally"

\* the exit status of the process: sys.exit(0) after a SIGINT (line 60);
\* the main block falls off its end after crawl() returned, and also after
\* except Exception (lines 320-324) handled an error
exit_status(reason) ==
    IF reason = "interrupted" THEN 0
    ELSE IF reason = "completed" THEN 0
    ELSE 0

\* lines 56-62: signal_handler, run between two steps of the main thread
signal_handler ==
    /\ pc # "exited"
    /\ disk' \in save_data(crawl_data, disk)
    /\ sigint_keys' = DOMAIN crawl_data
    /\ pc' = system_exit_lands(pc)
    /\ exit_reason' = IF pc' = "parse_fallback" THEN exit_reason
                      ELSE "interrupted"
    /\ exit_code' = IF pc' = "exited" THEN exit_status("interrupted")
                    ELSE exit_code
    /\ UNCHANGED << queue, visited_urls, pages_crawled, crawl_data,
                    last_save_count, current_url, links_found_this_page,
                    discovered, relinked, dequeued, fetched, soup >>

\* a mutant of MainFinally: the process ends without the final save
MainFinally_NoSave ==
    /\ pc = "finally"
    /\ pc' = "exited"
    /\ exit_code' = exit_status(exit_reason)
    /\ UNCHANGED << queue, visited_urls, pages_crawled, crawl_data,
                    last_save_count, current_url, links_found_this_page, disk,
                    exit_reason, discovered, relinked, dequeued, fetched,
                    sigint_keys, soup >>

\* lines 325-333: the finally of the main block saves and the process ends
MainFinally ==
    /\ pc = "finally"
    /\ disk' \in save_data(crawl_data, disk)
    /\ pc' = "exited"
    /\ exit_code' = exit_status(exit_reason)
    /\ UNCHANGED << queue, visited_urls, pages_crawled, crawl_data,
                    last_save_count, current_url, links_found_this_page,
                    exit_reason, discovered, relinked, dequeued, fetched,
                    sigint_keys, soup >>

Next ==
    \/ Dequeue
    \/ QueueEmpty
    \/ UnexpectedError
    \/ FetchTimeout
    \/ FetchRequestException
    \/ FetchNonHtml
    \/ FetchHtml
    \/ ParseLxml
    \/ ParseFallback
    \/ ParseFallbackRaises
    \/ StoreData
    \/ HarvestLink
    \/ HarvestDone
    \/ CountAndSave
    \/ signal_handler
    \/ MainFinally

Spec == Init /\ [][Next]_vars

(***************************************************************************)
(* Properties.                                                             *)
(***************************************************************************)
NoDuplicates(s) == \A i, j \in 1..Len(s) : i # j => s[i] # s[j]

Urls(s) == [i \in 1..Len(s) |-> s[i].url]

FetchFailures == {"timeout", "request_exception"}

\* C1: at-most-once enqueue.  In every reachable state the queue holds no
\* URL twice and no URL of visited_urls, and no URL was appended to the
\* queue more than once over the crawl.
C1_AtMostOnceEnqueue ==
    /\ NoDuplicates(queue)
    /\ \A i \in 1..Len(queue) : queue[i] \notin visited_urls
    /\ NoDuplicates(Urls(discovered))

\* a finished crawl in which three URLs were queued and a link to a URL
\* already queued or visited was met
C1_Witness ==
    /\ relinked
    /\ Len(discovered) >= 3
    /\ pc = "exited"
    /\ exit_reason = "completed"

\* C2: write-once results.  No step replaces an entry of crawl_data by a
\* different one.
C2_WriteOnce ==
    [][\A u \in DOMAIN crawl_data :
          u \in DOMAIN crawl_data' /\ crawl_data'[u] = crawl_data[u]]_vars

\* C3: after a SIGINT, delivered at any point, no URL is dequeued and no
\* URL is fetched.
C3_InterruptStopsCrawl ==
    [][sigint_keys # NoSigint =>
          (dequeued' = dequeued /\ fetched' = fetched)]_vars

\* C4: the exit status of the process differs from the status of each of
\* the two other ways (interrupted, completed, fatal) a crawl ends.
C4_DistinctExitStatus ==
    pc = "exited" =>
        \A r \in {"interrupted", "completed", "fatal"} \ {exit_reason} :
            exit_code # exit_status(r)

\* C5: when the process has exited after a SIGINT, the snapshot written
\* to the file holds exactly the entries crawl_data had at the SIGINT.
C5_InterruptSnapshot ==
    (pc = "exited" /\ sigint_keys # NoSigint /\ disk.state = "written") =>
        DOMAIN disk.data = sigint_keys

\* C6: whenever pages_crawled is incremented to a multiple of
\* SAVE_EVERY_N_PAGES, the same step saves a snapshot (and so records the
\* count in last_save_count), whatever the outcome of the URL.
C6_CheckpointEveryNth ==
    [][(pages_crawled' # pages_crawled
          /\ pages_crawled' % SAVE_EVERY_N_PAGES = 0) =>
          last_save_count' = pages_crawled']_vars

\* C7: breadth-first order.  The URLs are dequeued in the order of their
\* discovery, and every URL discovered on the seed's page (depth 1) is
\* dequeued before any URL discovered on the page of one of them (depth 2).
C7_BfsOrder ==
    /\ Len(dequeued) <= Len(discovered)
    /\ \A i \in 1..Len(dequeued) : dequeued[i] = discovered[i].url
    /\ \A i, j \in 1..Len(dequeued) :
          (discovered[i].depth = 2 /\ discovered[j].depth = 1) => j < i
    /\ \A i \in 1..Len(dequeued), j \in 1..Len(discovered) :
          (discovered[i].depth = 2 /\ discovered[j].depth = 1) =>
              j <= Len(dequeued)

\* two URLs were found on the seed's page and one on the page of the first
\* of them, and all of them were dequeued
C7_Witness ==
    /\ Len(dequeued) = 4
    /\ discovered[2].depth = 1
    /\ discovered[3].depth = 1
    /\ discovered[4].depth = 2

\* C8: at every iteration boundary of the loop, and when the crawl has
\* ended on an empty queue, the keys of crawl_data are the visited URLs.
C8_OneResultPerDequeued ==
    (pc = "loop" \/ (pc \in {"finally", "exited"}
                       /\ exit_reason = "completed")) =>
        DOMAIN crawl_data = visited_urls

\* an iteration boundary with all four kinds of entry in the store
C8_Witness ==
    /\ pc = "loop"
    /\ { crawl_data[u].status : u \in DOMAIN crawl_data } =
          {"success", "skipped_non_html", "error", "processing_error"}

\* C9: no URL is passed to requests.get twice.
C9_NoRefetch == NoDuplicates(Urls(fetched))

\* a finished crawl in which a fetch failed and a later page linked to a
\* URL already queued or visited
C9_Witness ==
    /\ pc = "exited"
    /\ exit_reason = "completed"
    /\ relinked
    /\ \E i \in 1..Len(fetched) : fetched[i].outcome \in FetchFailures
    /\ Len(fetched) >= 3

\* C10: a fetch that times out or raises a RequestException stores an
\* entry of status error for the URL, leaves the queue as it is and takes
\* the loop to its next iteration; and a crawl that ends on an empty queue
\* has visited every URL it discovered.
C10_FetchFailureContinues ==
    /\ [][(Len(fetched') = Len(fetched) + 1
             /\ fetched'[Len(fetched')].outcome \in FetchFailures) =>
             /\ current_url \in DOMAIN crawl_data'
             /\ crawl_data'[current_url].status = "error"
             /\ queue' = queue
             /\ pc' = "loop"]_vars
    /\ [](exit_reason = "completed" =>
             \A i \in 1..Len(discovered) :
                 discovered[i].url \in visited_urls)

\* a fetch failed, its URL has an error entry, and the crawl went on to
\* fetch the URLs that were in the queue
C10_Witness ==
    \E i \in 1..Len(fetched) :
        /\ fetched[i].outcome \in FetchFailures
        /\ crawl_data[fetched[i].url].status = "error"
        /\ i + 2 <= Len(fetched)

\* C11: a malformed link is dropped silently.  No step of the link loop
\* changes the result stored for the page, and the link loop is left only
\* at its end, never for the next iteration of the crawl loop.
C11_MalformedLinkDropped ==
    [][pc = "harvest" => (crawl_data' = crawl_data /\ pc' # "loop")]_vars

\* the parts of a URL as the claim names them
InScope(url) ==
    LET parsed == urlparse(url)
    IN  /\ parsed.scheme \in {"http", "https"}
        /\ parsed.netloc = "www.workstream.us"
        /\ parsed.fragment = <<>>
        /\ \A e \in excluded_extensions :
              ~ endswith(lower(parsed.path), e)

\* C12: every URL that link harvesting appended to the queue is in scope,
\* and so is every key of crawl_data other than the seed.
C12_OnlyInScopeQueued ==
    /\ \A i \in 2..Len(discovered) : InScope(discovered[i].url)
    /\ \A i \in 1..Len(queue) : queue[i] = START_URL \/ InScope(queue[i])
    /\ \A u \in DOMAIN crawl_data : u = START_URL \/ InScope(u)

\* two links of the seed's page were handled: one was appended, the other
\* was neither appended nor a link to a URL already queued or visited
C12_Witness ==
    /\ pc = "harvest"
    /\ current_url = START_URL
    /\ links_found_this_page = 2
    /\ Len(discovered) = 2
    /\ ~ relinked

\* C13: a fetch that returns a content type without text/html stores a
\* skipped_non_html entry with the content type and goes to the next
\* iteration with the queue as it was.
C13_NonHtmlNotHarvested ==
    [][(Len(fetched') = Len(fetched) + 1
          /\ fetched'[Len(fetched')].outcome = "non_html") =>
          /\ current_url \in DOMAIN crawl_data'
          /\ crawl_data'[current_url] =
                [status |-> "skipped_non_html", info |-> "application/json"]
          /\ queue' = queue
          /\ discovered' = discovered
          /\ pc' = "loop"]_vars

\* a non-HTML URL was recorded while other URLs wait in the queue
C13_Witness ==
    /\ pc = "loop"
    /\ queue # <<>>
    /\ current_url \in DOMAIN crawl_data
    /\ crawl_data[current_url].status = "skipped_non_html"

\* C14: when the process has ended after the queue emptied or after an
\* unexpected error, the final save was attempted, and if the last write
\* succeeded the file holds crawl_data as it is at the end.
C14_FinalSnapshot ==
    (pc = "exited" /\ exit_reason \in {"completed", "fatal"}) =>
        /\ disk.state # "absent"
        /\ disk.state = "written" => disk.data = crawl_data

\* the process ended on an unexpected error with two entries saved
C14_Witness ==
    /\ pc = "exited"
    /\ exit_reason = "fatal"
    /\ disk.state = "written"
    /\ Cardinality(DOMAIN crawl_data) = 2

\* C15: a periodic save that fails changes neither crawl_data nor
\* visited_urls nor the queue, and the loop goes to its next iteration.
C15_FailedSaveContinues ==
    [][(pc = "count" /\ pc' # "finally" /\ disk'.state = "partial") =>
          /\ crawl_data' = crawl_data
          /\ visited_urls' = visited_urls
          /\ queue' = queue
          /\ pages_crawled' = pages_crawled + 1
          /\ pc' = "loop"]_vars

\* after a periodic save failed the crawl went on to the next URL
C15_Witness ==
    /\ pc = "fetch"
    /\ sigint_keys = NoSigint
    /\ disk.state = "partial"
    /\ last_save_count = pages_crawled

(***************************************************************************)
(* The extraction of one page, for every combination of content regions.   *)
(***************************************************************************)
\* the seed's page was fetched and parsed (lines 132-178), and the document
\* has any of the regions
ExtractInit ==
    /\ queue = <<>>
    /\ visited_urls = {START_URL}
    /\ pages_crawled = 0
    /\ crawl_data = NoEntries
    /\ last_save_count = 0
    /\ current_url = START_URL
    /\ links_found_this_page = 0
    /\ pc = "extract"
    /\ disk = [state |-> "absent", data |-> NoEntries]
    /\ exit_reason = ""
    /\ exit_code = -1
    /\ discovered = <<[url |-> START_URL, depth |-> 0]>>
    /\ relinked = FALSE
    /\ dequeued = <<START_URL>>
    /\ fetched = <<[url |-> START_URL, outcome |-> "html"]>>
    /\ sigint_keys = NoSigint
    /\ soup \in SUBSET Regions

\* the page has no links
ExtractNext ==
    \/ StoreData
    \/ HarvestDone
    \/ CountAndSave
    \/ QueueEmpty
    \/ MainFinally

ExtractSpec == ExtractInit /\ [][ExtractNext]_vars

\* the regions in the order of the strategies, and the method each records
StrategyRegion ==
    <<"main#main-content", "main", "div.body-container-wrapper", "body">>

StrategyMethod ==
    <<"main#main-content", "<main> tag", "div.body-container-wrapper",
      "Fallback (Body Cleanup)">>

About == <<"https://www.workstream.us", "/", "a">>

EndToEndDrained ==
    /\ pc = "exited"
    /\ exit_reason = "completed"
    /\ Urls(discovered) = <<START_URL, About>>
    /\ fetched[1].outcome = "html"
    /\ START_URL \in DOMAIN crawl_data
    /\ crawl_data[START_URL].status = "success"

\* C17 as stated: after the drain the queue is empty and crawl_data has
\* exactly two entries, one under the seed without its trailing slash
\* (success, text "Hello World") and one under /a.
C17_EndToEnd_SeedKeyTrimmed ==
    EndToEndDrained =>
        /\ queue = <<>>
        /\ DOMAIN crawl_data = {<<"https://www.workstream.us">>, About}
        /\ crawl_data[<<"https://www.workstream.us">>].status = "success"
        /\ crawl_data[<<"https://www.workstream.us">>].text = "Hello World"

\* C17 amended: after the drain the queue is empty and crawl_data has
\* exactly two entries, one under the seed as given, with its root slash
\* (success, text "Hello World", method of the primary landmark), and one
\* under /a; each was fetched once.
C17_EndToEnd ==
    EndToEndDrained =>
        /\ queue = <<>>
        /\ DOMAIN crawl_data = {START_URL, About}
        /\ crawl_data[START_URL].status = "success"
        /\ crawl_data[START_URL].text = "Hello World"
        /\ crawl_data[START_URL].info = "main#main-content"
        /\ Urls(fetched) = <<START_URL, About>>

\* the drain of the scenario, with /a an HTML page too
C17_Witness ==
    /\ EndToEndDrained
    /\ About \in DOMAIN crawl_data
    /\ crawl_data[About].status = "success"

(***************************************************************************)
(* The normalization of links, for paths, queries and fragments with and   *)
(* without trailing slashes.                                               *)
(***************************************************************************)
NormPaths == { <<"/">>, <<"/", "a">>, <<"/", "a", "/">> }

NormQueries == { <<>>, <<"?", "q">>, <<"?", "q", "/">>, <<"?", "/">> }

NormFragments == { <<>>, <<"#", "f">>, <<"#", "f", "/">> }

\* the href attributes of the seed's page
NormHrefs ==
    { p \o q \o f : p \in NormPaths, q \in NormQueries, f \in NormFragments }

\* lines 253-267 on the seed's page
NormHarvestLink == harvest_link(NormHrefs)

\* lines 161-175: the seed answers with HTML
NormFetchHtml == current_url = START_URL /\ FetchHtml

\* lines 161, 278-281: every other URL times out
NormFetchTimeout == current_url # START_URL /\ FetchTimeout

\* a crawl without SIGINT in which only the seed's page can be read
NormNext ==
    \/ Dequeue
    \/ NormFetchHtml
    \/ NormFetchTimeout
    \/ ParseLxml
    \/ ParseFallback
    \/ StoreData
    \/ NormHarvestLink
    \/ HarvestDone
    \/ CountAndSave
    \/ QueueEmpty
    \/ MainFinally

NormSpec == Init /\ [][NormNext]_vars

\* C18: the normalization is idempotent.  A URL that the link loop
\* appended to the queue is returned unchanged by the normalization of the
\* link loop, and the clean-up at dequeue leaves it unchanged too.
C18_NormalizationIdempotent ==
    /\ \A i \in 2..Len(discovered) :
          absolute_url(START_URL, discovered[i].url) = discovered[i].url
    /\ \A i \in 1..Len(dequeued) : dequeued[i] = discovered[i].url

\* C19: at every iteration boundary pages_crawled equals the number of
\* entries of crawl_data and the number of visited URLs; and no step counts
\* a page more than once.
C19_CounterConsistency ==
    pc = "loop" =>
        /\ pages_crawled = Cardinality(DOMAIN crawl_data)
        /\ pages_crawled = Cardinality(visited_urls)
        /\ DOMAIN crawl_data = visited_urls

\* three URLs were processed, one of them a page whose link loop raised
\* after the success entry was written
C19_Witness ==
    /\ pc = "loop"
    /\ pages_crawled = 3
    /\ \E u \in DOMAIN crawl_data : crawl_data[u].info = "ValueError"
    /\ \E u \in DOMAIN crawl_data : crawl_data[u].status = "error"

(***************************************************************************)
(* The crawl left to run: no SIGINT, no error outside the handlers of the  *)
(* loop.                                                                   *)
(***************************************************************************)
LiveNext ==
    \/ Dequeue
    \/ QueueEmpty
    \/ FetchTimeout
    \/ FetchRequestException
    \/ FetchNonHtml
    \/ FetchHtml
    \/ ParseLxml
    \/ ParseFallback
    \/ ParseFallbackRaises
    \/ StoreData
    \/ HarvestLink
    \/ HarvestDone
    \/ CountAndSave
    \/ MainFinally

\* the steps the process cannot put off for ever: it is one thread that
\* always takes its next step, requests.get(..., timeout=25) returns or
\* raises, and the for loop of line 253 reaches the end of the page's links
LiveProgress ==
    \/ Dequeue
    \/ QueueEmpty
    \/ FetchTimeout
    \/ FetchRequestException
    \/ FetchNonHtml
    \/ FetchHtml
    \/ ParseLxml
    \/ ParseFallback
    \/ ParseFallbackRaises
    \/ StoreData
    \/ HarvestDone
    \/ CountAndSave
    \/ MainFinally

LiveSpec == Init /\ [][LiveNext]_vars /\ WF_vars(LiveProgress)

\* the queue emptied, the process ended, and every URL ever appended to
\* the queue was dequeued and visited
Drained ==
    /\ pc = "exited"
    /\ exit_reason = "completed"
    /\ queue = <<>>
    /\ Urls(discovered) = dequeued
    /\ visited_urls = {dequeued[i] : i \in 1..Len(dequeued)}

====
